---- MODULE Spec2Model ----
(***************************************************************************)
(* The micro-batch pipeline of scripts/spark_news_consumer.py:             *)
(* process_batch (emptiness check, scoring, per-company aggregation, the   *)
(* two extremal reports) and save_to_cassandra (connect, CREATE TABLE IF   *)
(* NOT EXISTS, prepare, one INSERT per collected row), driven by the       *)
(* foreachBatch trigger of start_streaming.                                *)
(*                                                                         *)
(* Scores are fixed-point integers in units of 0.00005.  VADER rounds the  *)
(* compound score to four decimals, so every compound is an even number of *)
(* units and the mean of two compounds is an exact number of units.        *)
(* Floating-point rounding of the double arithmetic is not modelled.       *)
(***************************************************************************)
EXTENDS Integers, Sequences, FiniteSets, TLC

VARIABLES
    pc,                 \* position of the streaming query / process_batch
    epoch_id,           \* number of batches the trigger has delivered
    df,                 \* the batch handed to process_batch
    sentiment_df,       \* process_batch's scored batch
    company_sentiment,  \* process_batch's per-company statistics
    most_positive,      \* rows shown by the first extremal report
    most_negative,      \* rows shown by the second extremal report
    cursor,             \* position of save_to_cassandra's row loop
    tables,             \* Result Store: the tables of the keyspace
    rows,               \* Result Store: the rows of news_sentiment
    calls,              \* history: store calls made by this invocation
    written,            \* history: rows this invocation inserted
    outcome,            \* how the last invocation ended
    error,              \* stage in which the last invocation raised
    tablesAtStart,      \* history: tables when this batch was delivered
    rowsAtStart,        \* history: rows when this batch was delivered
    lastInsert,         \* history: per key, the latest row inserted
    failedBefore        \* history: an earlier batch ended in the handler

vars == <<pc, epoch_id, df, sentiment_df, company_sentiment,
          most_positive, most_negative, cursor, tables, rows, calls,
          written, outcome, error, tablesAtStart, rowsAtStart, lastInsert,
          failedBefore>>

-----------------------------------------------------------------------------
(* Bounds of the model. *)

MaxBatches == 2
MaxBatchLen == 3
MaxScoreLen == 2
MaxReportLen == 5

-----------------------------------------------------------------------------
(* Values. *)

\* Python None / SQL NULL in a string column.
NULL == "<null>"

\* SQL NULL in a double or timestamp column is <<>>; a value v is <<v>>.
NullValue == <<>>

Value(v) == <<v>>

IsNull(d) == d = <<>>

Val(d) == d[1]

\* 0.05 and -0.05 in units of 0.00005.
PosThreshold == 1000

NegThreshold == -1000

\* The limit of both extremal reports.
TopK == 3

-----------------------------------------------------------------------------
(* Sentiment scoring. *)

\* The compound score VADER gives a text, in units of 0.00005.
analyze_sentiment(text) ==
    CASE text = "surges"  -> 18000
      [] text = "rallies" -> 10000
      [] text = "soars"   -> 2000
      [] text = "flat"    -> 0
      [] text = "falls"   -> -2000
      [] text = "slips"   -> -4000
      [] text = "plunges" -> -16000

get_sentiment(text) ==
    IF text = NULL THEN NullValue ELSE Value(analyze_sentiment(text))

\* Column addition: NULL if either operand is NULL.
Plus(a, b) ==
    IF IsNull(a) \/ IsNull(b) THEN NullValue ELSE Value(Val(a) + Val(b))

\* Column division by the literal 2: NULL stays NULL.
DivideBy2(a) ==
    IF IsNull(a) THEN NullValue ELSE Value(Val(a) \div 2)

overall_sentiment(t, d) == DivideBy2(Plus(t, d))

\* A comparison with a NULL operand is not true.
GreaterEq(a, c) == ~IsNull(a) /\ Val(a) >= c

LessEq(a, c) == ~IsNull(a) /\ Val(a) <= c

sentiment_label_strict(o) ==
    IF ~IsNull(o) /\ Val(o) > PosThreshold THEN "positive"
    ELSE IF LessEq(o, NegThreshold) THEN "negative"
    ELSE "neutral"

sentiment_label(o) ==
    IF GreaterEq(o, PosThreshold) THEN "positive"
    ELSE IF LessEq(o, NegThreshold) THEN "negative"
    ELSE "neutral"

ScoreRow(a) ==
    LET t == get_sentiment(a.title)
        d == get_sentiment(a.description)
        o == overall_sentiment(t, d)
    IN  [title |-> a.title, description |-> a.description,
         company |-> a.company, fetch_timestamp |-> a.fetch_timestamp,
         title_sentiment |-> t, description_sentiment |-> d,
         overall_sentiment |-> o, sentiment_label |-> sentiment_label(o)]

ScoreBatch(batch) == [k \in 1..Len(batch) |-> ScoreRow(batch[k])]

IsEmptyNever(batch) == FALSE

\* df.rdd.isEmpty()
IsEmpty(batch) == Len(batch) = 0

-----------------------------------------------------------------------------
(* Per-company statistics: groupBy("company").agg(...). *)

RECURSIVE SumValues(_)
SumValues(col) ==
    IF col = <<>> THEN 0 ELSE Val(Head(col)) + SumValues(Tail(col))

\* The SQL aggregate avg: NULL inputs are skipped; NULL when none is left.
\* The result is the exact ratio <<sum, count>>.
avg(col) ==
    LET present == SelectSeq(col, LAMBDA d : ~IsNull(d))
    IN  IF Len(present) = 0 THEN NullValue
        ELSE <<SumValues(present), Len(present)>>

Group(sdf, c) == SelectSeq(sdf, LAMBDA r : r.company = c)

LabelIndicator(g, label) ==
    [k \in 1..Len(g) |-> Value(IF g[k].sentiment_label = label THEN 1 ELSE 0)]

AggregateGroup(g, c) ==
    [company        |-> c,
     avg_sentiment  |-> avg([k \in 1..Len(g) |-> g[k].overall_sentiment]),
     article_count  |-> Len(g),
     positive_ratio |-> avg(LabelIndicator(g, "positive")),
     negative_ratio |-> avg(LabelIndicator(g, "negative"))]

Aggregate(sdf) ==
    {AggregateGroup(Group(sdf, c), c) : c \in {sdf[k].company : k \in 1..Len(sdf)}}

-----------------------------------------------------------------------------
(* The extremal reports: orderBy(...).select(...).limit(3).show().          *)
(* Ascending order puts NULL first, descending order puts NULL last.  The   *)
(* order of rows with equal keys is not defined by the sort: every order    *)
(* of ties is a possible report.                                            *)

Precedes(a, b, descending) ==
    IF descending
    THEN \/ ~IsNull(a) /\ IsNull(b)
         \/ ~IsNull(a) /\ ~IsNull(b) /\ Val(a) > Val(b)
    ELSE \/ IsNull(a) /\ ~IsNull(b)
         \/ ~IsNull(a) /\ ~IsNull(b) /\ Val(a) < Val(b)

\* The positions that may come first among `remaining`.
First(sdf, remaining, descending) ==
    {k \in remaining : \A j \in remaining :
        ~Precedes(sdf[j].overall_sentiment, sdf[k].overall_sentiment, descending)}

RECURSIVE TakeOrdered(_, _, _, _)
TakeOrdered(sdf, remaining, n, descending) ==
    IF n = 0 \/ remaining = {} THEN {<<>>}
    ELSE UNION {{<<k>> \o rest :
                    rest \in TakeOrdered(sdf, remaining \ {k}, n - 1, descending)} :
                k \in First(sdf, remaining, descending)}

OrderByNoLimit(sdf, descending) ==
    TakeOrdered(sdf, 1..Len(sdf), Len(sdf), descending)

OrderByLimit(sdf, descending) ==
    TakeOrdered(sdf, 1..Len(sdf), TopK, descending)

Shown(sdf, order) ==
    [j \in 1..Len(order) |->
        [company |-> sdf[order[j]].company, title |-> sdf[order[j]].title,
         overall_sentiment |-> sdf[order[j]].overall_sentiment]]

-----------------------------------------------------------------------------
(* The Result Store as save_to_cassandra uses it. *)

TableSchema ==
    [name |-> "news_sentiment", primary_key |-> <<"timestamp", "company">>]

CreateTable(ts) == Append(ts, TableSchema)

\* CREATE TABLE IF NOT EXISTS news_sentiment (...)
CreateTableIfNotExists(ts) ==
    IF \E k \in 1..Len(ts) : ts[k].name = TableSchema.name
    THEN ts ELSE Append(ts, TableSchema)

\* The bound parameters of the INSERT for one collected row.
ToRow(r) ==
    [timestamp |-> r.fetch_timestamp, company |-> r.company,
     title |-> r.title, description |-> r.description,
     title_sentiment |-> r.title_sentiment,
     description_sentiment |-> r.description_sentiment,
     overall_sentiment |-> r.overall_sentiment,
     sentiment_label |-> r.sentiment_label]

KeyOf(row) == <<row.timestamp, row.company>>

\* The store rejects an INSERT whose primary key has a null column.
Insertable(row) == ~IsNull(row.timestamp) /\ row.company # NULL

InsertNoOverwrite(rs, row) == rs \cup {row}

\* INSERT is an upsert on the primary key (timestamp, company).
Insert(rs, row) == {x \in rs : KeyOf(x) # KeyOf(row)} \cup {row}

-----------------------------------------------------------------------------
(* Inputs: the batches the trigger may deliver. *)

Article(t, d, c, ts) ==
    [title |-> t, description |-> d, company |-> c, fetch_timestamp |-> Value(ts)]

SeqsUpTo(S, n) == UNION {[1..m -> S] : m \in 0..n}

\* A null description, a second article with the same key, an article with
\* another key, and an article whose company is null.
Articles ==
    {Article("soars", NULL, "ACME", 1), Article("falls", "flat", "ACME", 1),
     Article("soars", "soars", "BETA", 2), Article("flat", "flat", NULL, 1)}

Batches == SeqsUpTo(Articles, MaxBatchLen)

\* Whether the library call of a stage (a Spark job, a store request) raises.
Raises == BOOLEAN

ScoreTexts == {"soars", "flat", "falls", NULL}

ScoreArticles ==
    {Article(t, d, c, 1) : t \in ScoreTexts, d \in ScoreTexts, c \in {"ACME", "BETA"}}

ScoreBatches == SeqsUpTo(ScoreArticles, MaxScoreLen)

\* Articles scoring 0.9, 0.1, -0.8, 0.5, -0.2, a second one scoring 0.1 and
\* one whose description is null.
ReportArticles ==
    {Article("surges", "surges", "ACME", 1), Article("soars", "soars", "ACME", 2),
     Article("plunges", "plunges", "ACME", 3), Article("rallies", "rallies", "ACME", 4),
     Article("slips", "slips", "ACME", 5), Article("soars", "soars", "BETA", 2),
     Article("soars", NULL, "BETA", 6)}

\* Batches of pairwise distinct articles.
DistinctSeqsUpTo(S, n) ==
    {b \in SeqsUpTo(S, n) : \A j, k \in 1..Len(b) : j # k => b[j] # b[k]}

ReportBatches == DistinctSeqsUpTo(ReportArticles, MaxReportLen)

-----------------------------------------------------------------------------
(* The state after construction: the query is started and waits for data. *)

NoRow == [timestamp |-> NullValue, company |-> NULL]

Keys == {KeyOf(ToRow(ScoreRow(a))) : a \in Articles \cup ScoreArticles \cup ReportArticles}

Init ==
    /\ pc = "Idle"
    /\ epoch_id = 0
    /\ df = <<>>
    /\ sentiment_df = <<>>
    /\ company_sentiment = {}
    /\ most_positive = <<>>
    /\ most_negative = <<>>
    /\ cursor = 0
    /\ tables \in {<<>>, <<TableSchema>>}
    /\ rows = {}
    /\ calls = <<>>
    /\ written = <<>>
    /\ outcome = "none"
    /\ error = "none"
    /\ tablesAtStart = tables
    /\ rowsAtStart = rows
    /\ lastInsert = [k \in Keys |-> NoRow]
    /\ failedBefore = FALSE

-----------------------------------------------------------------------------
(* process_batch. *)

data == <<rows, lastInsert>>

store == <<tables, rows, lastInsert>>

locals == <<sentiment_df, company_sentiment, most_positive, most_negative, cursor>>

input == <<epoch_id, df, tablesAtStart, rowsAtStart, failedBefore>>

\* An exception that leaves process_batch ends the streaming query.
Reraise(stage) ==
    /\ pc' = "Terminated"
    /\ outcome' = "failed"
    /\ error' = stage
    /\ UNCHANGED data

\* A handler that undoes what the batch wrote.
ExceptDiscards(stage) ==
    /\ pc' = "Returned"
    /\ outcome' = "failed"
    /\ error' = stage
    /\ rows' = rowsAtStart
    /\ UNCHANGED lastInsert

\* except Exception as e: print(...); process_batch returns normally.
Except(stage) ==
    /\ pc' = "Returned"
    /\ outcome' = "failed"
    /\ error' = stage
    /\ UNCHANGED data

\* The trigger fires and foreachBatch calls process_batch(df, epoch_id).
Receive(batch) ==
    /\ pc' = "Receiving"
    /\ epoch_id' = epoch_id + 1
    /\ df' = batch
    /\ outcome' = "running"
    /\ UNCHANGED <<locals, store, calls, written, error, tablesAtStart,
                   rowsAtStart, failedBefore>>

\* if df.rdd.isEmpty(): print(...); return
CheckEmpty ==
    /\ pc = "Receiving"
    /\ \E raises \in Raises :
          IF raises THEN Except("check")
          ELSE IF IsEmpty(df)
               THEN pc' = "Returned" /\ outcome' = "empty" /\ UNCHANGED <<error, data>>
               ELSE pc' = "Scoring" /\ UNCHANGED <<outcome, error, data>>
    /\ UNCHANGED <<input, locals, tables, calls, written>>

Score ==
    /\ pc = "Scoring"
    /\ \E raises \in Raises :
          IF raises
          THEN Except("score") /\ UNCHANGED sentiment_df
          ELSE /\ sentiment_df' = ScoreBatch(df)
               /\ pc' = "Aggregating"
               /\ UNCHANGED <<outcome, error, data>>
    /\ UNCHANGED <<input, company_sentiment, most_positive, most_negative,
                   cursor, tables, calls, written>>

AggregateStep ==
    /\ pc = "Aggregating"
    /\ \E raises \in Raises :
          IF raises
          THEN Except("aggregate") /\ UNCHANGED company_sentiment
          ELSE /\ company_sentiment' = Aggregate(sentiment_df)
               /\ pc' = "Reporting"
               /\ UNCHANGED <<outcome, error, data>>
    /\ UNCHANGED <<input, sentiment_df, most_positive, most_negative,
                   cursor, tables, calls, written>>

Report ==
    /\ pc = "Reporting"
    /\ \E raises \in Raises :
          IF raises
          THEN Except("report") /\ UNCHANGED <<most_positive, most_negative>>
          ELSE /\ \E p \in OrderByLimit(sentiment_df, TRUE) :
                     most_positive' = Shown(sentiment_df, p)
               /\ \E n \in OrderByLimit(sentiment_df, FALSE) :
                     most_negative' = Shown(sentiment_df, n)
               /\ pc' = "Connecting"
               /\ UNCHANGED <<outcome, error, data>>
    /\ UNCHANGED <<input, sentiment_df, company_sentiment, cursor, tables,
                   calls, written>>

-----------------------------------------------------------------------------
(* save_to_cassandra, called from process_batch. *)

\* cluster = Cluster(...); session = cluster.connect(keyspace)
Connect ==
    /\ pc = "Connecting"
    /\ calls' = Append(calls, "connect")
    /\ \E raises \in Raises :
          IF raises THEN Except("connect")
          ELSE pc' = "Schema" /\ UNCHANGED <<outcome, error, data>>
    /\ UNCHANGED <<input, locals, tables, written>>

\* session.execute(create_table_query)
EnsureSchema ==
    /\ pc = "Schema"
    /\ calls' = Append(calls, "create")
    /\ \E raises \in Raises :
          IF raises THEN Except("schema") /\ UNCHANGED tables
          ELSE /\ tables' = CreateTableIfNotExists(tables)
               /\ pc' = "Preparing"
               /\ UNCHANGED <<outcome, error, data>>
    /\ UNCHANGED <<input, locals, written>>

\* insert_query = session.prepare(...); df.collect()
Prepare ==
    /\ pc = "Preparing"
    /\ calls' = Append(calls, "prepare")
    /\ \E raises \in Raises :
          IF raises THEN Except("prepare") /\ UNCHANGED cursor
          ELSE /\ cursor' = 1
               /\ pc' = "Inserting"
               /\ UNCHANGED <<outcome, error, data>>
    /\ UNCHANGED <<input, sentiment_df, company_sentiment, most_positive,
                   most_negative, tables, written>>

\* One iteration of the row loop: session.execute(insert_query, (...)).
InsertRow ==
    /\ pc = "Inserting"
    /\ cursor <= Len(sentiment_df)
    /\ calls' = Append(calls, "insert")
    /\ LET row == ToRow(sentiment_df[cursor])
       IN  IF Insertable(row)
           THEN /\ rows' = Insert(rows, row)
                /\ lastInsert' = [lastInsert EXCEPT ![KeyOf(row)] = row]
                /\ written' = Append(written, row)
                /\ cursor' = cursor + 1
                /\ UNCHANGED <<pc, outcome, error>>
           ELSE /\ Except("insert")
                /\ UNCHANGED <<written, cursor>>
    /\ UNCHANGED <<input, sentiment_df, company_sentiment, most_positive,
                   most_negative, tables>>

\* The loop is over: print(...); save_to_cassandra and process_batch return.
Saved ==
    /\ pc = "Inserting"
    /\ cursor > Len(sentiment_df)
    /\ pc' = "Returned"
    /\ outcome' = "ok"
    /\ UNCHANGED <<input, locals, store, calls, written, error>>

-----------------------------------------------------------------------------
(* start_streaming: the trigger loop around process_batch. *)

\* process_batch has returned: its frame is gone and the query waits for the
\* next trigger.
Commit ==
    /\ pc = "Returned"
    /\ pc' = "Idle"
    /\ df' = <<>>
    /\ sentiment_df' = <<>>
    /\ company_sentiment' = {}
    /\ most_positive' = <<>>
    /\ most_negative' = <<>>
    /\ cursor' = 0
    /\ calls' = <<>>
    /\ written' = <<>>
    /\ outcome' = "none"
    /\ error' = "none"
    /\ tablesAtStart' = tables
    /\ rowsAtStart' = rows
    /\ failedBefore' = (failedBefore \/ outcome = "failed")
    /\ UNCHANGED <<epoch_id, store>>

\* The query is active and waits for the trigger (query.awaitTermination).
Waiting(limit) == pc = "Idle" /\ epoch_id < limit

-----------------------------------------------------------------------------
(* Specifications. *)

Tick ==
    /\ Waiting(MaxBatches)
    /\ \E b \in Batches : Receive(b)

Next ==
    \/ Tick
    \/ CheckEmpty
    \/ Score
    \/ AggregateStep
    \/ Report
    \/ Connect
    \/ EnsureSchema
    \/ Prepare
    \/ InsertRow
    \/ Saved
    \/ Commit

Spec == Init /\ [][Next]_vars

\* One batch through scoring and aggregation.
TickScore ==
    /\ Waiting(1)
    /\ \E b \in ScoreBatches : Receive(b)

NextScore ==
    \/ TickScore
    \/ CheckEmpty
    \/ Score
    \/ AggregateStep

SpecScore == Init /\ [][NextScore]_vars

\* One batch of distinct articles through the whole of process_batch.
TickReport ==
    /\ Waiting(1)
    /\ \E b \in ReportBatches : Receive(b)

NextReport ==
    \/ TickReport
    \/ CheckEmpty
    \/ Score
    \/ AggregateStep
    \/ Report
    \/ Connect
    \/ EnsureSchema
    \/ Prepare
    \/ InsertRow
    \/ Saved
    \/ Commit

SpecReport == Init /\ [][NextReport]_vars

-----------------------------------------------------------------------------
(* Properties of the orchestrator and the Result Store, checked under Spec. *)

\* The rows save_to_cassandra binds for a batch, in iteration order.
RowsOf(batch) == [k \in 1..Len(batch) |-> ToRow(ScoreRow(batch[k]))]

InsertCalls(n) == [k \in 1..n |-> "insert"]

\* C1: an error raised in any stage of process_batch is caught inside it:
\* the streaming query is never terminated by a batch, a failed invocation
\* has returned to the trigger loop, which can always go back to waiting,
\* and a batch that runs to the end after an earlier batch failed is scored,
\* aggregated and written from its own articles alone.
C1_ErrorsContained ==
    /\ pc # "Terminated"
    /\ outcome = "failed" => pc = "Returned" /\ error # "none"
    /\ pc = "Returned" => ENABLED Commit
    /\ (pc = "Returned" /\ failedBefore /\ outcome = "ok") =>
          /\ sentiment_df = ScoreBatch(df)
          /\ company_sentiment = Aggregate(ScoreBatch(df))
          /\ written = RowsOf(df)
          /\ calls = <<"connect", "create", "prepare">> \o InsertCalls(Len(df))

\* A non-empty batch has been processed to the end after an earlier batch
\* ended in the handler.
C1_Witness ==
    /\ pc = "Returned"
    /\ failedBefore
    /\ outcome = "ok"
    /\ Len(df) = MaxBatchLen

After(rs, ws) ==
    {r \in rs : \A k \in 1..Len(ws) : KeyOf(ws[k]) # KeyOf(r)}
    \cup {ws[k] : k \in {j \in 1..Len(ws) :
                           \A m \in (j + 1)..Len(ws) : KeyOf(ws[m]) # KeyOf(ws[j])}}

C3_SiblingRowsWritten ==
    (pc = "Returned" /\ (outcome = "ok" \/ error = "insert")) =>
        \A k \in 1..Len(df) :
            Insertable(RowsOf(df)[k]) =>
                \E r \in rows :
                    /\ KeyOf(r) = KeyOf(RowsOf(df)[k])
                    /\ \E j \in 1..Len(df) : r = RowsOf(df)[j]

\* C4: an empty batch goes from the emptiness check straight back to the
\* trigger loop: nothing is scored or aggregated, no store call is made,
\* tables and rows are as they were, and unless the emptiness check itself
\* raised the invocation ends as "empty", not in the handler.
C4_EmptyBatchShortCircuits ==
    (pc # "Idle" /\ Len(df) = 0) =>
        /\ pc \in {"Receiving", "Returned"}
        /\ sentiment_df = <<>>
        /\ company_sentiment = {}
        /\ most_positive = <<>> /\ most_negative = <<>>
        /\ calls = <<>>
        /\ written = <<>>
        /\ tables = tablesAtStart
        /\ rows = rowsAtStart
        /\ pc = "Returned" =>
              IF error = "check" THEN outcome = "failed" ELSE outcome = "empty"

\* An empty batch has returned normally, the store holding rows of an
\* earlier batch.
C4_Witness ==
    /\ pc = "Returned"
    /\ epoch_id > 1
    /\ Len(df) = 0
    /\ outcome = "empty"
    /\ rows # {}

\* C9: the keyspace never holds a second news_sentiment table and the one
\* table has primary key (timestamp, company); every invocation that
\* reaches the row loop has run the schema setup first; and the setup,
\* run where the table exists, leaves the table and all its rows as they
\* were.
C9_SchemaSetupIdempotent ==
    /\ Len(tables) <= 1
    /\ \A k \in 1..Len(tables) : tables[k] = TableSchema
    /\ \A k \in 1..Len(calls) :
          calls[k] = "insert" =>
              \E j \in 1..(k - 1) : calls[j] = "create"
    /\ pc \in {"Preparing", "Inserting"} =>
          /\ tables = <<TableSchema>>
          /\ Cardinality({k \in 1..Len(calls) : calls[k] = "create"}) = 1
    /\ pc = "Preparing" =>
          /\ rows = rowsAtStart
          /\ tablesAtStart # <<>> => tables = tablesAtStart

\* The schema setup has just run on a store whose table exists and holds
\* rows.
C9_Witness ==
    /\ pc = "Preparing"
    /\ tablesAtStart = <<TableSchema>>
    /\ rowsAtStart # {}
    /\ rows = rowsAtStart

\* C10: the Result Store holds at most one row per (timestamp, company)
\* key; the row of a key is the row of the latest insert for that key; and
\* the rows of all other keys are the rows of their own latest inserts.
C10_LastWriteWins ==
    /\ \A r1, r2 \in rows : KeyOf(r1) = KeyOf(r2) => r1 = r2
    /\ rows = {lastInsert[k] : k \in Keys} \ {NoRow}
    /\ \A r \in rows : Insertable(r) /\ lastInsert[KeyOf(r)] = r

\* An insert has replaced the row an earlier batch wrote under the same
\* key by a different row, while a row of another key is still there.
C10_Witness ==
    /\ pc = "Returned"
    /\ \E w \in rows, old \in rowsAtStart :
          /\ KeyOf(w) = KeyOf(old)
          /\ w # old
          /\ \E k \in 1..Len(written) : written[k] = w
    /\ \E r \in rows \cap rowsAtStart :
          \A k \in 1..Len(written) : KeyOf(written[k]) # KeyOf(r)

-----------------------------------------------------------------------------
(* Properties of scoring and aggregation, checked under SpecScore. *)

\* C5 as stated: an article with one null text field and one present is
\* scored by the present field alone or is flagged as unscored, and every
\* scored record has a numeric overall_sentiment or is flagged.
C5_NullFieldFallsBack ==
    \A k \in 1..Len(sentiment_df) :
        LET r == sentiment_df[k]
        IN  /\ (r.description = NULL /\ r.title # NULL) =>
                  \/ r.overall_sentiment = r.title_sentiment
                  \/ r.sentiment_label = "unscored"
            /\ (r.title = NULL /\ r.description # NULL) =>
                  \/ r.overall_sentiment = r.description_sentiment
                  \/ r.sentiment_label = "unscored"
            /\ \/ ~IsNull(r.overall_sentiment)
               \/ r.sentiment_label = "unscored"

\* C6: every scored article has exactly one of the three labels, decided
\* by overall_sentiment alone: positive exactly from 0.05 up (0.05
\* included), negative exactly from -0.05 down (-0.05 included), neutral
\* in every other case.
C6_LabelByThresholds ==
    \A k \in 1..Len(sentiment_df) :
        LET o == sentiment_df[k].overall_sentiment
            l == sentiment_df[k].sentiment_label
            high == ~IsNull(o) /\ Val(o) >= PosThreshold
            low == ~IsNull(o) /\ Val(o) <= NegThreshold
        IN  /\ l \in {"positive", "negative", "neutral"}
            /\ l = "positive" <=> high
            /\ l = "negative" <=> low
            /\ l = "neutral" <=> (~high /\ ~low)

\* A scored batch holds an article at exactly 0.05 and one at exactly -0.05.
C6_Witness ==
    /\ pc = "Aggregating"
    /\ \E j, k \in 1..Len(sentiment_df) :
          /\ sentiment_df[j].overall_sentiment = Value(PosThreshold)
          /\ sentiment_df[j].sentiment_label = "positive"
          /\ sentiment_df[k].overall_sentiment = Value(NegThreshold)
          /\ sentiment_df[k].sentiment_label = "negative"

CountLabel(g, label) ==
    Cardinality({k \in 1..Len(g) : g[k].sentiment_label = label})

\* C7 as stated: one aggregate per distinct company of the batch, with
\* article_count the size of the group, avg_sentiment the mean of
\* overall_sentiment over all article_count articles, and the two ratios
\* the counts of positive and negative labels over article_count, the
\* same for every order of the batch.
C7_AggregatePerCompany ==
    pc = "Reporting" =>
        /\ \A p \in Permutations(1..Len(sentiment_df)) :
              Aggregate([k \in 1..Len(sentiment_df) |-> sentiment_df[p[k]]])
                  = company_sentiment
        /\ {a.company : a \in company_sentiment} =
               {df[k].company : k \in 1..Len(df)}
        /\ Cardinality(company_sentiment) =
               Cardinality({df[k].company : k \in 1..Len(df)})
        /\ \A a \in company_sentiment :
              LET g == Group(sentiment_df, a.company)
              IN  /\ a.article_count = Len(g)
                  /\ a.article_count >= 1
                  /\ a.positive_ratio = <<CountLabel(g, "positive"), a.article_count>>
                  /\ a.negative_ratio = <<CountLabel(g, "negative"), a.article_count>>
                  /\ CountLabel(g, "positive") + CountLabel(g, "negative")
                        + CountLabel(g, "neutral") = a.article_count
                  /\ \A k \in 1..Len(g) : ~IsNull(g[k].overall_sentiment)
                  /\ a.avg_sentiment =
                        <<SumValues([k \in 1..Len(g) |-> g[k].overall_sentiment]),
                          a.article_count>>

-----------------------------------------------------------------------------
(* Properties of the extremal reports, checked under SpecReport. *)

Minimum(S) == CHOOSE x \in S : \A y \in S : x <= y

\* The report a stable sort would give: among equal keys, batch order.
RECURSIVE StableTake(_, _, _, _)
StableTake(sdf, remaining, n, descending) ==
    IF n = 0 \/ remaining = {} THEN <<>>
    ELSE LET k == Minimum(First(sdf, remaining, descending))
         IN  <<k>> \o StableTake(sdf, remaining \ {k}, n - 1, descending)

\* Both reports of this invocation have been shown.
Reported ==
    \/ pc \in {"Connecting", "Schema", "Preparing", "Inserting"}
    \/ pc = "Returned" /\ outcome = "ok"
    \/ pc = "Returned" /\ error \in {"connect", "schema", "prepare", "insert"}

\* C8 as stated: each report lists the first min(3, batch size) articles of
\* the batch sorted by overall_sentiment, ties in batch order.
C8_StableReports ==
    Reported =>
        /\ most_positive =
              Shown(sentiment_df,
                    StableTake(sentiment_df, 1..Len(sentiment_df), TopK, TRUE))
        /\ most_negative =
              Shown(sentiment_df,
                    StableTake(sentiment_df, 1..Len(sentiment_df), TopK, FALSE))

Occurrences(seq, x) == Cardinality({k \in 1..Len(seq) : seq[k] = x})

\* `shown` lists in sorted order, each row at most as often as the batch
\* holds it, rows that no other row of the batch has to precede.
IsExtremal(shown, sdf, descending) ==
    LET all == Shown(sdf, [k \in 1..Len(sdf) |-> k])
    IN  /\ Len(shown) = IF Len(sdf) < TopK THEN Len(sdf) ELSE TopK
        /\ \A j \in 1..Len(shown) :
              /\ Occurrences(shown, shown[j]) <= Occurrences(all, shown[j])
              /\ \A k \in (j + 1)..Len(shown) :
                    ~Precedes(shown[k].overall_sentiment,
                              shown[j].overall_sentiment, descending)
              /\ Cardinality({k \in 1..Len(all) :
                    Precedes(all[k].overall_sentiment,
                             shown[j].overall_sentiment, descending)}) <= j - 1

Overalls(seq) == [k \in 1..Len(seq) |-> seq[k].overall_sentiment]

ExampleOveralls ==
    <<Value(18000), Value(2000), Value(-16000), Value(10000), Value(-4000)>>

\* C8 as amended: each report lists min(3, batch size) articles of the
\* batch, sorted by overall_sentiment descending (null last) for the most
\* positive and ascending (null first) for the most negative, no omitted
\* article sorting before a listed one, articles of equal
\* overall_sentiment in any order; for [0.9, 0.1, -0.8, 0.5, -0.2] the
\* reports are [0.9, 0.5, 0.1] and [-0.8, -0.2, 0.1]; the scored batch is
\* the same after the reports as before, and the rows written are its rows.
C8_SortedReports ==
    Reported =>
        /\ IsExtremal(most_positive, sentiment_df, TRUE)
        /\ IsExtremal(most_negative, sentiment_df, FALSE)
        /\ Overalls(sentiment_df) = ExampleOveralls =>
              /\ Overalls(most_positive) = <<Value(18000), Value(10000), Value(2000)>>
              /\ Overalls(most_negative) = <<Value(-16000), Value(-4000), Value(2000)>>
        /\ sentiment_df = ScoreBatch(df)
        /\ (pc = "Returned" /\ outcome = "ok") => written = RowsOf(df)

\* The batch of the example has been reported and written.
C8_Witness ==
    /\ pc = "Returned"
    /\ outcome = "ok"
    /\ Overalls(sentiment_df) = ExampleOveralls
    /\ Len(most_positive) = TopK
    /\ Len(written) = 5

====
